---------------------------- MODULE Spec2Model ----------------------------
(***************************************************************************)
(* StrongIndex: strongly-typed index wrappers (strong-index.hpp) and the   *)
(* doctest harness that drives them (tests.cpp).                           *)
(*                                                                         *)
(* A wrapper is a record with the single field index_.  The underlying     *)
(* type is the unsigned std::size_t of the tests, modelled with Width bits *)
(* (arithmetic modulo 2^Width).  The three class templates are written out *)
(* separately in the header, so each has its own operators here.           *)
(***************************************************************************)
EXTENDS Integers, Sequences, FiniteSets, TLC

\* Number of bits of the underlying unsigned type in the model.
Width == 3

Modulus == 2 ^ Width

\* using Underlying = std::size_t
Underlying == 0 .. (Modulus - 1)

\* Unsigned arithmetic of the underlying type: results are taken mod 2^Width.
Wrap(n) == n % Modulus

\* Conversion of an int literal / size_t expression to Underlying.
Lit(n) == Wrap(n)

\* Base-10 rendering of an unsigned value (operator<< of std::ostream on the
\* underlying value, and std::to_string), as the sequence of its digits.
RECURSIVE Decimal(_)
Decimal(n) == IF n < 10 THEN <<n>> ELSE Decimal(n \div 10) \o <<n % 10>>

\* The underlying type's own / and %.  Division by zero is undefined
\* behaviour for an unsigned integer: the outcome is a trap of the process or
\* any value whatever.  ub records that the undefined operation was executed.
Underlying_div(a, d) ==
    IF d = 0
    THEN {[ub |-> TRUE, trap |-> TRUE, val |-> a]}
         \cup {[ub |-> TRUE, trap |-> FALSE, val |-> x] : x \in Underlying}
    ELSE {[ub |-> FALSE, trap |-> FALSE, val |-> a \div d]}

Underlying_mod(a, d) ==
    IF d = 0
    THEN {[ub |-> TRUE, trap |-> TRUE, val |-> a]}
         \cup {[ub |-> TRUE, trap |-> FALSE, val |-> x] : x \in Underlying}
    ELSE {[ub |-> FALSE, trap |-> FALSE, val |-> a % d]}

-----------------------------------------------------------------------------
(* template<class Tag, typename T> class Basic *)

Basic_ctor(underlyingIndex) == [index_ |-> underlyingIndex]

\* Variant: the assignment that forgets to store the new value.
Basic_assign_keep(self, underlyingIndex) == self

Basic_assign(self, underlyingIndex) == [self EXCEPT !.index_ = underlyingIndex]

Basic_cast(self) == self.index_

Basic_eq(a, b) == a.index_ = b.index_

\* Variant: operator!= without the negation.
Basic_ne_same(a, b) == Basic_eq(a, b)

Basic_ne(a, b) == ~Basic_eq(a, b)

Basic_stream(os, idx) == os \o Decimal(idx.index_)

-----------------------------------------------------------------------------
(* template<class Tag, typename T> class Incrementable *)

Incrementable_ctor(underlyingIndex) == [index_ |-> underlyingIndex]

Incrementable_assign(self, underlyingIndex) ==
    [self EXCEPT !.index_ = underlyingIndex]

Incrementable_cast(self) == self.index_

Incrementable_eq(a, b) == a.index_ = b.index_

Incrementable_ne(a, b) == ~Incrementable_eq(a, b)

Incrementable_stream(os, idx) == os \o Decimal(idx.index_)

\* Mutating members return [self |-> the object afterwards, ret |-> the value
\* returned]; a member returning *this returns the object afterwards.
Incrementable_preinc(self) ==
    LET s == [self EXCEPT !.index_ = Wrap(self.index_ + 1)]
    IN  [self |-> s, ret |-> s]

Incrementable_postinc(self) ==
    LET oldValue == self
    IN  [self |-> Incrementable_preinc(self).self, ret |-> oldValue]

\* Variant: operator-- that increments (the body copied from operator++).
Incrementable_predec_up(self) == Incrementable_preinc(self)

Incrementable_predec(self) ==
    LET s == [self EXCEPT !.index_ = Wrap(self.index_ - 1)]
    IN  [self |-> s, ret |-> s]

Incrementable_postdec(self) ==
    LET oldValue == self
    IN  [self |-> Incrementable_predec(self).self, ret |-> oldValue]

Incrementable_addassign(self, idxShift) ==
    LET s == [self EXCEPT !.index_ = Wrap(self.index_ + idxShift)]
    IN  [self |-> s, ret |-> s]

Incrementable_subassign(self, idxShift) ==
    LET s == [self EXCEPT !.index_ = Wrap(self.index_ - idxShift)]
    IN  [self |-> s, ret |-> s]

\* The friend operators take a by value: the caller's object is untouched.
Incrementable_add(a, idxShift) == Incrementable_addassign(a, idxShift).ret

\* Variant: operator- that adds (the body copied from operator+).
Incrementable_sub_plus(a, idxShift) == Incrementable_addassign(a, idxShift).ret

Incrementable_sub(a, idxShift) == Incrementable_subassign(a, idxShift).ret

-----------------------------------------------------------------------------
(* template<class Tag, typename T> class FullArithmetic *)

FullArithmetic_ctor(underlyingIndex) == [index_ |-> underlyingIndex]

FullArithmetic_assign(self, underlyingIndex) ==
    [self EXCEPT !.index_ = underlyingIndex]

FullArithmetic_cast(self) == self.index_

FullArithmetic_eq(a, b) == a.index_ = b.index_

FullArithmetic_ne(a, b) == ~FullArithmetic_eq(a, b)

FullArithmetic_stream(os, idx) == os \o Decimal(idx.index_)

FullArithmetic_preinc(self) ==
    LET s == [self EXCEPT !.index_ = Wrap(self.index_ + 1)]
    IN  [self |-> s, ret |-> s]

\* Variant: the post-increment that returns the incremented object.
FullArithmetic_postinc_new(self) == FullArithmetic_preinc(self)

FullArithmetic_postinc(self) ==
    LET oldValue == self
    IN  [self |-> FullArithmetic_preinc(self).self, ret |-> oldValue]

FullArithmetic_predec(self) ==
    LET s == [self EXCEPT !.index_ = Wrap(self.index_ - 1)]
    IN  [self |-> s, ret |-> s]

FullArithmetic_postdec(self) ==
    LET oldValue == self
    IN  [self |-> FullArithmetic_predec(self).self, ret |-> oldValue]

FullArithmetic_addassign(self, idxShift) ==
    LET s == [self EXCEPT !.index_ = Wrap(self.index_ + idxShift)]
    IN  [self |-> s, ret |-> s]

FullArithmetic_subassign(self, idxShift) ==
    LET s == [self EXCEPT !.index_ = Wrap(self.index_ - idxShift)]
    IN  [self |-> s, ret |-> s]

FullArithmetic_add(a, idxShift) == FullArithmetic_addassign(a, idxShift).ret

FullArithmetic_sub(a, idxShift) == FullArithmetic_subassign(a, idxShift).ret

\* operator+=(const FullArithmetic&) and its relatives: wrapper operands.
FullArithmetic_addassign_idx(self, other) ==
    LET s == [self EXCEPT !.index_ = Wrap(self.index_ + other.index_)]
    IN  [self |-> s, ret |-> s]

FullArithmetic_subassign_idx(self, other) ==
    LET s == [self EXCEPT !.index_ = Wrap(self.index_ - other.index_)]
    IN  [self |-> s, ret |-> s]

\* Variant: operator+ that adds a to itself instead of b.
FullArithmetic_add_idx_self(a, b) == FullArithmetic_addassign_idx(a, a).ret

FullArithmetic_add_idx(a, b) == FullArithmetic_addassign_idx(a, b).ret

FullArithmetic_sub_idx(a, b) == FullArithmetic_subassign_idx(a, b).ret

\* Variant: operator*= that adds the scale.
FullArithmetic_mulassign_plus(self, idxScale) ==
    LET s == [self EXCEPT !.index_ = Wrap(self.index_ + idxScale)]
    IN  [self |-> s, ret |-> s]

FullArithmetic_mulassign(self, idxScale) ==
    LET s == [self EXCEPT !.index_ = Wrap(self.index_ * idxScale)]
    IN  [self |-> s, ret |-> s]

\* operator*(FullArithmetic a, const T& idxScale)
FullArithmetic_mul(a, idxScale) == FullArithmetic_mulassign(a, idxScale).ret

\* Variant: scale * index that shifts instead of scaling.
FullArithmetic_mul_left_plus(idxScale, b) == FullArithmetic_add(b, idxScale)

\* operator*(const T& idxScale, FullArithmetic b)
FullArithmetic_mul_left(idxScale, b) == FullArithmetic_mul(b, idxScale)

\* Variant: operator/= with a zero check of its own, leaving the object as
\* it was instead of dividing.
FullArithmetic_divassign_checked(self, idxDiv) ==
    IF idxDiv = 0
    THEN {[ub |-> FALSE, trap |-> FALSE, self |-> self, ret |-> self]}
    ELSE { [ub |-> o.ub, trap |-> o.trap,
            self |-> [self EXCEPT !.index_ = o.val],
            ret  |-> [self EXCEPT !.index_ = o.val]]
           : o \in Underlying_div(self.index_, idxDiv) }

\* operator/= and operator%= hand the divisor straight to the underlying
\* type: one outcome per outcome of the underlying operator.
FullArithmetic_divassign(self, idxDiv) ==
    { [ub |-> o.ub, trap |-> o.trap,
       self |-> [self EXCEPT !.index_ = o.val],
       ret  |-> [self EXCEPT !.index_ = o.val]]
      : o \in Underlying_div(self.index_, idxDiv) }

FullArithmetic_div(a, idxDiv) == FullArithmetic_divassign(a, idxDiv)

FullArithmetic_modassign(self, idxDiv) ==
    { [ub |-> o.ub, trap |-> o.trap,
       self |-> [self EXCEPT !.index_ = o.val],
       ret  |-> [self EXCEPT !.index_ = o.val]]
      : o \in Underlying_mod(self.index_, idxDiv) }

FullArithmetic_mod(a, idxDiv) == FullArithmetic_modassign(a, idxDiv)

-----------------------------------------------------------------------------
(* tests.cpp: the three index types under test and the operations the       *)
(* templated test functions reach through the template parameter Index.    *)

Tiers == {"Basic", "Incrementable", "FullArithmetic"}

\* The types offering the increment interface, and the full interface.
IncTiers == {"Incrementable", "FullArithmetic"}

FullTiers == {"FullArithmetic"}

\* The sets of types one test function is instantiated for (test_basic for
\* all three, test_incrementable for two, test_full_arithmetic for one).
Instantiations == {Tiers, IncTiers, FullTiers}

Ctor(t, v) ==
    CASE t = "Basic" -> Basic_ctor(v)
      [] t = "Incrementable" -> Incrementable_ctor(v)
      [] t = "FullArithmetic" -> FullArithmetic_ctor(v)

AssignUnderlying(t, w, v) ==
    CASE t = "Basic" -> Basic_assign(w, v)
      [] t = "Incrementable" -> Incrementable_assign(w, v)
      [] t = "FullArithmetic" -> FullArithmetic_assign(w, v)

Cast(t, w) ==
    CASE t = "Basic" -> Basic_cast(w)
      [] t = "Incrementable" -> Incrementable_cast(w)
      [] t = "FullArithmetic" -> FullArithmetic_cast(w)

Eq(t, a, b) ==
    CASE t = "Basic" -> Basic_eq(a, b)
      [] t = "Incrementable" -> Incrementable_eq(a, b)
      [] t = "FullArithmetic" -> FullArithmetic_eq(a, b)

Ne(t, a, b) ==
    CASE t = "Basic" -> Basic_ne(a, b)
      [] t = "Incrementable" -> Incrementable_ne(a, b)
      [] t = "FullArithmetic" -> FullArithmetic_ne(a, b)

Stream(t, os, w) ==
    CASE t = "Basic" -> Basic_stream(os, w)
      [] t = "Incrementable" -> Incrementable_stream(os, w)
      [] t = "FullArithmetic" -> FullArithmetic_stream(os, w)

PreInc(t, w) ==
    CASE t = "Incrementable" -> Incrementable_preinc(w)
      [] t = "FullArithmetic" -> FullArithmetic_preinc(w)

PostInc(t, w) ==
    CASE t = "Incrementable" -> Incrementable_postinc(w)
      [] t = "FullArithmetic" -> FullArithmetic_postinc(w)

PreDec(t, w) ==
    CASE t = "Incrementable" -> Incrementable_predec(w)
      [] t = "FullArithmetic" -> FullArithmetic_predec(w)

PostDec(t, w) ==
    CASE t = "Incrementable" -> Incrementable_postdec(w)
      [] t = "FullArithmetic" -> FullArithmetic_postdec(w)

AddAssign(t, w, s) ==
    CASE t = "Incrementable" -> Incrementable_addassign(w, s)
      [] t = "FullArithmetic" -> FullArithmetic_addassign(w, s)

SubAssign(t, w, s) ==
    CASE t = "Incrementable" -> Incrementable_subassign(w, s)
      [] t = "FullArithmetic" -> FullArithmetic_subassign(w, s)

Add(t, w, s) ==
    CASE t = "Incrementable" -> Incrementable_add(w, s)
      [] t = "FullArithmetic" -> FullArithmetic_add(w, s)

Sub(t, w, s) ==
    CASE t = "Incrementable" -> Incrementable_sub(w, s)
      [] t = "FullArithmetic" -> FullArithmetic_sub(w, s)

\* bool operator==(const Index& index, const Underlying& value) of the tests.
EqUnderlying(t, index, value) == Cast(t, index) = value

\* std::to_string(expectedValue)
to_string(value) == Decimal(value)

-----------------------------------------------------------------------------
VARIABLES
    status,   \* "running", or how the process ended: "trapped", "undefined"
    tiers,    \* the index types the running test is instantiated for
    index,    \* index[t]: the object `index` of type t
    op,       \* the operation applied last
    arg,      \* its raw operand (or the value its wrapper operand was built from)
    old,      \* old[t]: index[t] before the operation
    ret,      \* ret[t]: what the operation returned for type t
    given,    \* the value last given by construction or assignment, -1 once
              \* arithmetic has changed the object since
    prog      \* the run of the example program (example.cpp, main)

vars == <<status, tiers, index, op, arg, old, ret, given, prog>>

\* The example program is not running.
NotStarted == [pc |-> "none"]

NotGiven == 0 - 1

\* TEST_CASE: Index index(value), for every type of the instantiation.
Construct(S, value) ==
    /\ status = "running"
    /\ tiers' = S
    /\ index' = [t \in S |-> Ctor(t, value)]
    /\ old' = [t \in S |-> Ctor(t, value)]
    /\ ret' = [t \in S |-> Ctor(t, value)]
    /\ op' = "ctor"
    /\ arg' = value
    /\ given' = value
    /\ status' = "running"
    /\ prog' = prog

Init ==
    /\ status = "running"
    /\ \E S \in Instantiations, value \in Underlying :
          /\ tiers = S
          /\ index = [t \in S |-> Ctor(t, value)]
          /\ old = [t \in S |-> Ctor(t, value)]
          /\ ret = [t \in S |-> Ctor(t, value)]
          /\ op = "ctor"
          /\ arg = value
          /\ given = value
    /\ prog = NotStarted

\* The bookkeeping common to every operation that returns normally.
Returns(name, a, idx, r, g) ==
    /\ status' = "running"
    /\ tiers' = tiers
    /\ index' = idx
    /\ old' = index
    /\ ret' = r
    /\ op' = name
    /\ arg' = a
    /\ given' = g
    /\ prog' = prog

-----------------------------------------------------------------------------
(* Operations every index type offers.                                     *)

\* index = value;
AssignFromUnderlying(value) ==
    /\ status = "running"
    /\ Returns("assign", value,
               [t \in tiers |-> AssignUnderlying(t, index[t], value)],
               [t \in tiers |-> AssignUnderlying(t, index[t], value)],
               value)

\* static_cast<Underlying>(index)
ToUnderlying ==
    /\ status = "running"
    /\ Returns("cast", 0, index, [t \in tiers |-> Cast(t, index[t])], given)

\* index == Index(value)
Equals(value) ==
    /\ status = "running"
    /\ Returns("eq", value, index,
               [t \in tiers |-> Eq(t, index[t], Ctor(t, value))], given)

\* index != Index(value)
NotEquals(value) ==
    /\ status = "running"
    /\ Returns("ne", value, index,
               [t \in tiers |-> Ne(t, index[t], Ctor(t, value))], given)

\* std::stringstream ss; ss << index;  returns the stream, read by ss.str()
Render ==
    /\ status = "running"
    /\ Returns("stream", 0, index,
               [t \in tiers |-> Stream(t, <<>>, index[t])], given)

\* test_basic(const Index& index, Underlying expectedValue): the booleans the
\* REQUIRE and the CHECKs evaluate, named by their line, and the locals.
test_basic_body(t, idx, expectedValue) ==
    LET sameIndex == Ctor(t, expectedValue)
        differentIndex == Ctor(t, Wrap(expectedValue + 1))
        differentIndex2 == sameIndex
        ss == Stream(t, <<>>, idx)
    IN  IF ~EqUnderlying(t, idx, expectedValue)
        THEN [aborted |-> TRUE]
        ELSE [aborted |-> FALSE,
              sameIndex |-> sameIndex,
              differentIndex |-> differentIndex2,
              c36 |-> Eq(t, idx, sameIndex),
              c37 |-> Ne(t, idx, differentIndex),
              c39 |-> Eq(t, idx, differentIndex2),
              ss |-> ss,
              c43 |-> (ss = to_string(expectedValue))]

test_basic(expectedValue) ==
    /\ status = "running"
    /\ Returns("test_basic", expectedValue, index,
               [t \in tiers |-> test_basic_body(t, index[t], expectedValue)],
               given)

-----------------------------------------------------------------------------
(* Operations of Incrementable and FullArithmetic.                         *)

PreIncrement ==
    /\ status = "running"
    /\ tiers \subseteq IncTiers
    /\ Returns("preinc", 0,
               [t \in tiers |-> PreInc(t, index[t]).self],
               [t \in tiers |-> PreInc(t, index[t]).ret], NotGiven)

PostIncrement ==
    /\ status = "running"
    /\ tiers \subseteq IncTiers
    /\ Returns("postinc", 0,
               [t \in tiers |-> PostInc(t, index[t]).self],
               [t \in tiers |-> PostInc(t, index[t]).ret], NotGiven)

PreDecrement ==
    /\ status = "running"
    /\ tiers \subseteq IncTiers
    /\ Returns("predec", 0,
               [t \in tiers |-> PreDec(t, index[t]).self],
               [t \in tiers |-> PreDec(t, index[t]).ret], NotGiven)

PostDecrement ==
    /\ status = "running"
    /\ tiers \subseteq IncTiers
    /\ Returns("postdec", 0,
               [t \in tiers |-> PostDec(t, index[t]).self],
               [t \in tiers |-> PostDec(t, index[t]).ret], NotGiven)

\* index += shift;
AddAssignShift(shift) ==
    /\ status = "running"
    /\ tiers \subseteq IncTiers
    /\ Returns("addassign", shift,
               [t \in tiers |-> AddAssign(t, index[t], shift).self],
               [t \in tiers |-> AddAssign(t, index[t], shift).ret], NotGiven)

\* index -= shift;
SubtractAssignShift(shift) ==
    /\ status = "running"
    /\ tiers \subseteq IncTiers
    /\ Returns("subassign", shift,
               [t \in tiers |-> SubAssign(t, index[t], shift).self],
               [t \in tiers |-> SubAssign(t, index[t], shift).ret], NotGiven)

\* index + shift
AddShift(shift) ==
    /\ status = "running"
    /\ tiers \subseteq IncTiers
    /\ Returns("add", shift, index,
               [t \in tiers |-> Add(t, index[t], shift)], given)

\* index - shift
SubtractShift(shift) ==
    /\ status = "running"
    /\ tiers \subseteq IncTiers
    /\ Returns("sub", shift, index,
               [t \in tiers |-> Sub(t, index[t], shift)], given)

\* test_incrementable(Index index, Underlying expectedValue): index is the
\* function's own copy.
test_incrementable_body(t, idx, expectedValue) ==
    LET r1 == PreInc(t, idx)
        r2 == PostInc(t, r1.self)
        r3 == PreDec(t, r2.self)
        r4 == PostDec(t, r3.self)
        i5 == AddAssign(t, r4.self, Lit(2)).self
        i6 == SubAssign(t, i5, Lit(3)).self
    IN  IF ~EqUnderlying(t, idx, expectedValue)
        THEN [aborted |-> TRUE]
        ELSE [aborted |-> FALSE,
              preInc |-> r1.ret,
              c51 |-> EqUnderlying(t, r1.ret, Wrap(expectedValue + 1)),
              c52 |-> EqUnderlying(t, r1.self, Wrap(expectedValue + 1)),
              postInc |-> r2.ret,
              c54 |-> EqUnderlying(t, r2.ret, Wrap(expectedValue + 1)),
              c55 |-> EqUnderlying(t, r2.self, Wrap(expectedValue + 2)),
              preDec |-> r3.ret,
              c57 |-> EqUnderlying(t, r3.ret, Wrap(expectedValue + 1)),
              c58 |-> EqUnderlying(t, r3.self, Wrap(expectedValue + 1)),
              postDec |-> r4.ret,
              c60 |-> EqUnderlying(t, r4.ret, Wrap(expectedValue + 1)),
              c61 |-> EqUnderlying(t, r4.self, expectedValue),
              c64 |-> EqUnderlying(t, i5, Wrap(expectedValue + 2)),
              c66 |-> EqUnderlying(t, i6, Wrap(expectedValue - 1)),
              c68 |-> EqUnderlying(t, Add(t, i6, Lit(3)),
                                   Wrap(expectedValue + 2)),
              c69 |-> EqUnderlying(t, Sub(t, i6, Lit(4)),
                                   Wrap(expectedValue - 5)),
              index |-> i6]

test_incrementable(expectedValue) ==
    /\ status = "running"
    /\ tiers \subseteq IncTiers
    /\ Returns("test_incrementable", expectedValue, index,
               [t \in tiers |->
                   test_incrementable_body(t, index[t], expectedValue)],
               given)

-----------------------------------------------------------------------------
(* Operations of FullArithmetic alone.                                     *)

\* How the process goes on after an operation of the underlying type.
After(ub, trap) ==
    IF trap THEN "trapped" ELSE IF ub THEN "undefined" ELSE "running"

\* index += Index(value);
AddAssignIndex(value) ==
    /\ status = "running"
    /\ tiers \subseteq FullTiers
    /\ Returns("addassign_idx", value,
               [t \in tiers |->
                   FullArithmetic_addassign_idx(index[t], Ctor(t, value)).self],
               [t \in tiers |->
                   FullArithmetic_addassign_idx(index[t], Ctor(t, value)).ret],
               NotGiven)

\* index -= Index(value);
SubtractAssignIndex(value) ==
    /\ status = "running"
    /\ tiers \subseteq FullTiers
    /\ Returns("subassign_idx", value,
               [t \in tiers |->
                   FullArithmetic_subassign_idx(index[t], Ctor(t, value)).self],
               [t \in tiers |->
                   FullArithmetic_subassign_idx(index[t], Ctor(t, value)).ret],
               NotGiven)

\* index + Index(value)
AddIndex(value) ==
    /\ status = "running"
    /\ tiers \subseteq FullTiers
    /\ Returns("add_idx", value, index,
               [t \in tiers |->
                   FullArithmetic_add_idx(index[t], Ctor(t, value))],
               given)

\* index - Index(value)
SubtractIndex(value) ==
    /\ status = "running"
    /\ tiers \subseteq FullTiers
    /\ Returns("sub_idx", value, index,
               [t \in tiers |->
                   FullArithmetic_sub_idx(index[t], Ctor(t, value))],
               given)

\* index *= scale;
MultiplyAssign(scale) ==
    /\ status = "running"
    /\ tiers \subseteq FullTiers
    /\ Returns("mulassign", scale,
               [t \in tiers |-> FullArithmetic_mulassign(index[t], scale).self],
               [t \in tiers |-> FullArithmetic_mulassign(index[t], scale).ret],
               NotGiven)

\* index * scale
Multiply(scale) ==
    /\ status = "running"
    /\ tiers \subseteq FullTiers
    /\ Returns("mul", scale, index,
               [t \in tiers |-> FullArithmetic_mul(index[t], scale)], given)

\* scale * index
MultiplyLeft(scale) ==
    /\ status = "running"
    /\ tiers \subseteq FullTiers
    /\ Returns("mul_left", scale, index,
               [t \in tiers |-> FullArithmetic_mul_left(scale, index[t])],
               given)

\* An operation that reaches the underlying / or %: o is one of its outcomes.
\* mutating says whether the caller's object takes the result.
Divides(name, divisor, o, mutating) ==
    /\ status' = After(o.ub, o.trap)
    /\ tiers' = tiers
    /\ index' = IF mutating THEN [t \in tiers |-> o.self] ELSE index
    /\ old' = index
    /\ ret' = [t \in tiers |-> o.ret]
    /\ op' = name
    /\ arg' = divisor
    /\ given' = IF mutating THEN NotGiven ELSE given
    /\ prog' = prog

\* index /= divisor;
DivideAssign(divisor) ==
    /\ status = "running"
    /\ tiers = FullTiers
    /\ \E o \in FullArithmetic_divassign(index["FullArithmetic"], divisor) :
          Divides("divassign", divisor, o, TRUE)

\* index / divisor
Divide(divisor) ==
    /\ status = "running"
    /\ tiers = FullTiers
    /\ \E o \in FullArithmetic_div(index["FullArithmetic"], divisor) :
          Divides("div", divisor, o, FALSE)

\* index %= divisor;
ModuloAssign(divisor) ==
    /\ status = "running"
    /\ tiers = FullTiers
    /\ \E o \in FullArithmetic_modassign(index["FullArithmetic"], divisor) :
          Divides("modassign", divisor, o, TRUE)

\* index % divisor
Modulo(divisor) ==
    /\ status = "running"
    /\ tiers = FullTiers
    /\ \E o \in FullArithmetic_mod(index["FullArithmetic"], divisor) :
          Divides("mod", divisor, o, FALSE)

\* test_full_arithmetic(Index index, Underlying expectedValue), for the
\* outcomes m, q, d of its index%4, index/4 and index /= 4.
test_full_arithmetic_body(idx, expectedValue, m, q, d) ==
    LET twoLess == FullArithmetic_ctor(Wrap(expectedValue - 2))
        almostDouble == FullArithmetic_add_idx(idx, twoLess)
        i1 == FullArithmetic_addassign_idx(idx, twoLess).self
        originalIndex == FullArithmetic_sub_idx(almostDouble, twoLess)
        i2 == FullArithmetic_subassign_idx(i1, twoLess).self
        quadruple ==
            FullArithmetic_add(FullArithmetic_mul_left(Lit(2), almostDouble),
                               Lit(4))
        i3 == FullArithmetic_mulassign(i2, Lit(4)).self
    IN  IF ~EqUnderlying("FullArithmetic", idx, expectedValue)
           \/ ~(expectedValue >= 1)
        THEN [aborted |-> TRUE]
        ELSE [aborted |-> FALSE,
              twoLess |-> twoLess,
              almostDouble |-> almostDouble,
              c79 |-> EqUnderlying("FullArithmetic", almostDouble,
                                   Wrap(2 * expectedValue - 2)),
              c81 |-> FullArithmetic_eq(i1, almostDouble),
              originalIndex |-> originalIndex,
              c83 |-> EqUnderlying("FullArithmetic", originalIndex,
                                   expectedValue),
              c85 |-> FullArithmetic_eq(i2, originalIndex),
              quadruple |-> quadruple,
              c88 |-> EqUnderlying("FullArithmetic", quadruple,
                                   Wrap(4 * expectedValue)),
              times4 |-> i3,
              c90 |-> FullArithmetic_eq(i3, quadruple),
              three |-> m.ret,
              c94 |-> EqUnderlying("FullArithmetic", m.ret, Lit(3)),
              quotient |-> q.ret,
              c95 |-> EqUnderlying("FullArithmetic", q.ret,
                                   Wrap(expectedValue - 1)),
              index |-> d.self,
              c97 |-> EqUnderlying("FullArithmetic", d.self,
                                   Wrap(expectedValue - 1))]

\* The object the test divides: index after `index *= 4; index -= 1;`.
test_full_arithmetic_dividend(idx, expectedValue) ==
    LET twoLess == FullArithmetic_ctor(Wrap(expectedValue - 2))
        i1 == FullArithmetic_addassign_idx(idx, twoLess).self
        i2 == FullArithmetic_subassign_idx(i1, twoLess).self
        i3 == FullArithmetic_mulassign(i2, Lit(4)).self
    IN  FullArithmetic_subassign(i3, Lit(1)).self

test_full_arithmetic(expectedValue) ==
    /\ status = "running"
    /\ tiers = FullTiers
    /\ LET idx == index["FullArithmetic"]
           i4 == test_full_arithmetic_dividend(idx, expectedValue)
       IN  \E m \in FullArithmetic_mod(i4, Lit(4)),
              q \in FullArithmetic_div(i4, Lit(4)),
              d \in FullArithmetic_divassign(i4, Lit(4)) :
                /\ status' = After(m.ub \/ q.ub \/ d.ub,
                                   m.trap \/ q.trap \/ d.trap)
                /\ tiers' = tiers
                /\ index' = index
                /\ old' = index
                /\ ret' = [t \in tiers |->
                             test_full_arithmetic_body(idx, expectedValue,
                                                       m, q, d)]
                /\ op' = "test_full_arithmetic"
                /\ arg' = expectedValue
                /\ given' = given
                /\ prog' = prog

-----------------------------------------------------------------------------
Next ==
    \/ \E S \in Instantiations, value \in Underlying : Construct(S, value)
    \/ \E value \in Underlying : AssignFromUnderlying(value)
    \/ ToUnderlying
    \/ \E value \in Underlying : Equals(value)
    \/ \E value \in Underlying : NotEquals(value)
    \/ Render
    \/ \E expectedValue \in Underlying : test_basic(expectedValue)
    \/ PreIncrement
    \/ PostIncrement
    \/ PreDecrement
    \/ PostDecrement
    \/ \E shift \in Underlying : AddAssignShift(shift)
    \/ \E shift \in Underlying : SubtractAssignShift(shift)
    \/ \E shift \in Underlying : AddShift(shift)
    \/ \E shift \in Underlying : SubtractShift(shift)
    \/ \E expectedValue \in Underlying : test_incrementable(expectedValue)
    \/ \E value \in Underlying : AddAssignIndex(value)
    \/ \E value \in Underlying : SubtractAssignIndex(value)
    \/ \E value \in Underlying : AddIndex(value)
    \/ \E value \in Underlying : SubtractIndex(value)
    \/ \E scale \in Underlying : MultiplyAssign(scale)
    \/ \E scale \in Underlying : Multiply(scale)
    \/ \E scale \in Underlying : MultiplyLeft(scale)
    \/ \E divisor \in Underlying : DivideAssign(divisor)
    \/ \E divisor \in Underlying : Divide(divisor)
    \/ \E divisor \in Underlying : ModuloAssign(divisor)
    \/ \E divisor \in Underlying : Modulo(divisor)
    \/ \E expectedValue \in Underlying : test_full_arithmetic(expectedValue)

Spec == Init /\ [][Next]_vars

-----------------------------------------------------------------------------
(* example.cpp: the command-line program.                                  *)

\* static constexpr std::size_t dbSize = 100;
dbSize == 100

EXIT_SUCCESS == 0

EXIT_FAILURE == 1

\* Number of bits of unsigned long long (and of std::size_t) in the model of
\* the program; it must leave dbSize representable.
UllBits == 7

ULLONG_MAX == 2 ^ UllBits - 1

\* The longest argument text, and the largest argc, that are tried.
MaxArgLen == 3

MaxArgc == 4

\* An argument is a sequence of characters from this alphabet.
Alphabet == {"0", "1", "9", "-", ".", "a"}

Texts == UNION {[1 .. n -> Alphabet] : n \in 0 .. MaxArgLen}

DigitChars == <<"0", "1", "2", "3", "4", "5", "6", "7", "8", "9">>

IsDigit(c) == \E d \in 1 .. 10 : DigitChars[d] = c

DigitValue(c) == (CHOOSE d \in 1 .. 10 : DigitChars[d] = c) - 1

\* std::stoull(str), base 10, as strtoull does it: leading white space is
\* skipped, one sign is taken, then the longest run of digits; what follows
\* the digits is ignored (the program passes no pos argument).
RECURSIVE SkipSpace(_)
SkipSpace(str) ==
    IF str # <<>> /\ Head(str) = " " THEN SkipSpace(Tail(str)) ELSE str

RECURSIVE DigitPrefix(_)
DigitPrefix(str) ==
    IF str # <<>> /\ IsDigit(Head(str))
    THEN <<Head(str)>> \o DigitPrefix(Tail(str))
    ELSE <<>>

RECURSIVE Magnitude(_)
Magnitude(digits) ==
    IF digits = <<>>
    THEN 0
    ELSE Magnitude(SubSeq(digits, 1, Len(digits) - 1)) * 10
         + DigitValue(digits[Len(digits)])

\* No digits: std::invalid_argument.  A magnitude above ULLONG_MAX:
\* std::out_of_range.  Otherwise the value, negated in the unsigned type when
\* the text has a minus sign.
stoull(str) ==
    LET body == SkipSpace(str)
        signed == body # <<>> /\ Head(body) \in {"+", "-"}
        negative == body # <<>> /\ Head(body) = "-"
        digits == DigitPrefix(IF signed THEN Tail(body) ELSE body)
        magnitude == Magnitude(digits)
    IN  IF digits = <<>>
        THEN [kind |-> "invalid_argument", val |-> 0]
        ELSE IF magnitude > ULLONG_MAX
        THEN [kind |-> "out_of_range", val |-> 0]
        ELSE [kind |-> "value",
              val |-> IF negative
                      THEN (ULLONG_MAX + 1 - magnitude) % (ULLONG_MAX + 1)
                      ELSE magnitude]

\* The friend counts and GPAs the random tables may hold at one index.
FriendCounts == {1, 2}

Gpas == {"3.5"}

\* The harness variables, which the program does not touch.
testVars == <<status, tiers, index, op, arg, old, ret, given>>

NoExit == 0 - 1

\* The process is started with argc - 1 arguments.  The text of argv[k] is
\* drawn when the program first reads it: an argument it never reads cannot
\* change the run.
CliInit ==
    /\ status = "running"
    /\ tiers = {"Basic"}
    /\ index = [t \in {"Basic"} |-> Basic_ctor(0)]
    /\ old = [t \in {"Basic"} |-> Basic_ctor(0)]
    /\ ret = [t \in {"Basic"} |-> Basic_ctor(0)]
    /\ op = "ctor"
    /\ arg = 0
    /\ given = 0
    /\ \E argc \in 1 .. MaxArgc :
          prog = [pc |-> "main", argc |-> argc, argv |-> <<>>,
                  rawIds |-> <<>>, ids |-> <<>>, lookups |-> <<>>,
                  err |-> <<>>, out |-> <<>>, exit |-> NoExit]

\* return EXIT_FAILURE after the diagnostic msg about argument n.
Fails(p, msg, n) ==
    [p EXCEPT !.pc = "exited",
              !.err = Append(p.err, [msg |-> msg, arg |-> n]),
              !.exit = EXIT_FAILURE]

\* if (argc != 3) { ... return EXIT_FAILURE; }
CheckArgc ==
    /\ prog.pc = "main"
    /\ prog' = IF prog.argc # 3
               THEN Fails(prog, "Exactly two arguments are required", 0)
               ELSE [prog EXCEPT !.pc = "loop"]
    /\ UNCHANGED testVars

\* One iteration of the for loop over rawIds, reading argv[i+1] = text.
ReadArgument(text) ==
    /\ prog.pc = "loop"
    /\ LET i == Len(prog.rawIds)
           read == [prog EXCEPT !.argv = Append(prog.argv, text)]
           r == stoull(text)
       IN  prog' =
             IF r.kind = "invalid_argument"
             THEN Fails(read, "Could not convert argument", i + 1)
             ELSE IF r.kind = "out_of_range"
             THEN Fails(read, "outside the range of unsigned long long",
                        i + 1)
             ELSE IF r.val >= dbSize
             THEN Fails(read, "larger than or equal to the DB size", i + 1)
             ELSE [read EXCEPT !.rawIds = Append(prog.rawIds, r.val),
                               !.pc = IF i + 1 < 2 THEN "loop" ELSE "lookup"]
    /\ UNCHANGED testVars

\* Lines 104-125: the two indices are built and both tables are read and
\* printed; friends and gpa are what the random tables hold there.
Lookup(friends, gpa) ==
    /\ prog.pc = "lookup"
    /\ LET userId == Basic_ctor(prog.rawIds[1])
           thisIsOk == Basic_assign(Basic_ctor(prog.rawIds[1]), prog.rawIds[1])
           studentId == Basic_ctor(prog.rawIds[2])
       IN  prog' = [prog EXCEPT
                      !.pc = "compare",
                      !.ids = <<userId, studentId>>,
                      !.lookups = <<Basic_cast(userId), Basic_cast(userId),
                                    Basic_cast(studentId)>>,
                      !.out = <<[who |-> "User",
                                 id |-> Basic_stream(<<>>, userId),
                                 value |-> friends,
                                 plural |-> (friends # 1)],
                                [who |-> "Student",
                                 id |-> Basic_stream(<<>>, studentId),
                                 value |-> gpa,
                                 plural |-> FALSE]>>]
    /\ UNCHANGED testVars

\* Lines 137-152: if (userId != userId) return EXIT_FAILURE; return
\* EXIT_SUCCESS;
Compare ==
    /\ prog.pc = "compare"
    /\ prog' = IF Basic_ne(prog.ids[1], prog.ids[1])
               THEN Fails(prog, "This shouldn't be happening!", 0)
               ELSE [prog EXCEPT !.pc = "exited", !.exit = EXIT_SUCCESS]
    /\ UNCHANGED testVars

CliNext ==
    \/ CheckArgc
    \/ \E text \in Texts : ReadArgument(text)
    \/ \E friends \in FriendCounts, gpa \in Gpas : Lookup(friends, gpa)
    \/ Compare

SpecCli == CliInit /\ [][CliNext]_vars

-----------------------------------------------------------------------------
(* Properties.                                                             *)

\* C2: explicit conversion to the underlying type returns the value most
\* recently given by construction or AssignFromUnderlying, for every tier:
\* as long as no arithmetic has touched the object since, the object
\* converts to that value, and a conversion just performed returned it.
C2_RoundTrip ==
    \A t \in tiers :
        /\ given # NotGiven => Cast(t, index[t]) = given
        /\ op \in {"ctor", "assign"} => Cast(t, index[t]) = arg
        /\ (op = "cast" /\ given # NotGiven) => ret[t] = given

\* C2 witness: a Basic index that was given the largest value has just been
\* converted and returned it.
C2_Witness ==
    /\ op = "cast"
    /\ "Basic" \in tiers
    /\ given = Modulus - 1
    /\ ret["Basic"] = Modulus - 1

\* C3: a == b holds exactly when the underlying values are equal, a != b is
\* the exact negation of a == b, and in test_basic the index equals
\* sameIndex, differs from differentIndex (built from v+1) and equals
\* differentIndex again after `differentIndex = sameIndex`.
C3_Equality ==
    \A t \in tiers :
        /\ op = "eq" =>
              (ret[t] <=> (Cast(t, index[t]) = Cast(t, Ctor(t, arg))))
        /\ op = "ne" =>
              /\ ret[t] <=> ~Eq(t, index[t], Ctor(t, arg))
              /\ ret[t] <=> (Cast(t, index[t]) # Cast(t, Ctor(t, arg)))
        /\ (op = "test_basic" /\ ~ret[t].aborted) =>
              ret[t].c36 /\ ret[t].c37 /\ ret[t].c39

\* C3 witness: test_basic ran to its end on a Basic index and found it equal
\* to the re-assigned differentIndex.
C3_Witness ==
    /\ op = "test_basic"
    /\ "Basic" \in tiers
    /\ ~ret["Basic"].aborted
    /\ ret["Basic"].c39
    /\ Cast("Basic", ret["Basic"].differentIndex) = arg

\* C4: PreIncrement leaves the object at v+1 and returns v+1, PostIncrement
\* leaves it at v+1 and returns the prior v, the decrements mirror this with
\* v-1 (all modulo 2^Width); in test_incrementable the sequence ++w, w++,
\* --w, w-- returns v+1 four times and leaves the object at v.
C4_IncDec ==
    \A t \in tiers :
        /\ op = "preinc" =>
              /\ Cast(t, index[t]) = Wrap(Cast(t, old[t]) + 1)
              /\ Cast(t, ret[t]) = Wrap(Cast(t, old[t]) + 1)
        /\ op = "postinc" =>
              /\ Cast(t, index[t]) = Wrap(Cast(t, old[t]) + 1)
              /\ Cast(t, ret[t]) = Cast(t, old[t])
        /\ op = "predec" =>
              /\ Cast(t, index[t]) = Wrap(Cast(t, old[t]) - 1)
              /\ Cast(t, ret[t]) = Wrap(Cast(t, old[t]) - 1)
        /\ op = "postdec" =>
              /\ Cast(t, index[t]) = Wrap(Cast(t, old[t]) - 1)
              /\ Cast(t, ret[t]) = Cast(t, old[t])
        /\ (op = "test_incrementable" /\ ~ret[t].aborted) =>
              /\ Cast(t, ret[t].preInc) = Wrap(arg + 1)
              /\ Cast(t, ret[t].postInc) = Wrap(arg + 1)
              /\ Cast(t, ret[t].preDec) = Wrap(arg + 1)
              /\ Cast(t, ret[t].postDec) = Wrap(arg + 1)
              /\ ret[t].c51 /\ ret[t].c52 /\ ret[t].c54 /\ ret[t].c55
              /\ ret[t].c57 /\ ret[t].c58 /\ ret[t].c60 /\ ret[t].c61

\* C4 witness: a post-increment of an Incrementable at the maximum wrapped
\* to 0 and returned the maximum.
C4_Witness ==
    /\ op = "postinc"
    /\ "Incrementable" \in tiers
    /\ Cast("Incrementable", old["Incrementable"]) = Modulus - 1
    /\ Cast("Incrementable", index["Incrementable"]) = 0
    /\ Cast("Incrementable", ret["Incrementable"]) = Modulus - 1

\* C5: AddAssign(s) leaves the object at (v + s) mod 2^Width and
\* SubtractAssign(s) at (v - s) mod 2^Width; Add and Subtract return a
\* wrapper holding those values and leave the object at v; in
\* test_incrementable `index += 2; index -= 3` leaves v-1.
C5_Shift ==
    \A t \in tiers :
        /\ op = "addassign" =>
              Cast(t, index[t]) = Wrap(Cast(t, old[t]) + arg)
        /\ op = "subassign" =>
              Cast(t, index[t]) = Wrap(Cast(t, old[t]) - arg)
        /\ op = "add" =>
              /\ Cast(t, ret[t]) = Wrap(Cast(t, old[t]) + arg)
              /\ Cast(t, index[t]) = Cast(t, old[t])
        /\ op = "sub" =>
              /\ Cast(t, ret[t]) = Wrap(Cast(t, old[t]) - arg)
              /\ Cast(t, index[t]) = Cast(t, old[t])
        /\ (op = "test_incrementable" /\ ~ret[t].aborted) =>
              /\ ret[t].c64 /\ ret[t].c66 /\ ret[t].c68 /\ ret[t].c69
              /\ Cast(t, ret[t].index) = Wrap(arg - 1)

\* C5 witness: a non-mutating subtraction that wrapped below zero.
C5_Witness ==
    /\ op = "sub"
    /\ "Incrementable" \in tiers
    /\ Cast("Incrementable", old["Incrementable"]) < arg
    /\ Cast("Incrementable", ret["Incrementable"])
          = Modulus + Cast("Incrementable", old["Incrementable"]) - arg
    /\ Cast("Incrementable", index["Incrementable"])
          = Cast("Incrementable", old["Incrementable"])

\* C6: for FullArithmetic a, b holding x and y, Add(a, b) and
\* a.AddAssign(b) both give (x + y) mod 2^Width, and subtracting the same b
\* again (Subtract or SubtractAssign) returns exactly to x, wrapping sums
\* included; in test_full_arithmetic, with y = x - 2, the sum is 2x - 2 and
\* both subtractions return to x.
C6_IndexSum ==
    \A t \in tiers :
        /\ op = "add_idx" =>
              /\ Cast(t, ret[t]) = Wrap(Cast(t, old[t]) + arg)
              /\ Cast(t, index[t]) = Cast(t, old[t])
              /\ FullArithmetic_sub_idx(ret[t], Ctor(t, arg)) = old[t]
              /\ FullArithmetic_subassign_idx(ret[t], Ctor(t, arg)).self
                    = old[t]
        /\ op = "addassign_idx" =>
              /\ Cast(t, index[t]) = Wrap(Cast(t, old[t]) + arg)
              /\ FullArithmetic_sub_idx(index[t], Ctor(t, arg)) = old[t]
              /\ FullArithmetic_subassign_idx(index[t], Ctor(t, arg)).self
                    = old[t]
        /\ (op = "test_full_arithmetic" /\ ~ret[t].aborted) =>
              /\ Cast(t, ret[t].almostDouble) = Wrap(2 * arg - 2)
              /\ Cast(t, ret[t].originalIndex) = arg
              /\ ret[t].c79 /\ ret[t].c81 /\ ret[t].c83 /\ ret[t].c85

\* C6 witness: index += Index(y) wrapped past the maximum.
C6_Witness ==
    /\ op = "addassign_idx"
    /\ tiers = FullTiers
    /\ Cast("FullArithmetic", old["FullArithmetic"]) + arg >= Modulus
    /\ arg > 0
    /\ Cast("FullArithmetic", index["FullArithmetic"])
          = Cast("FullArithmetic", old["FullArithmetic"]) + arg - Modulus

\* C7 as stated: for every starting value v >= 1 the whole chain of
\* test_full_arithmetic holds: index *= 4 equals 2*(index + (v-2)) + 4 = 4v,
\* and after index -= 1, index % 4 is 3, index / 4 is v - 1 and index /= 4
\* leaves v - 1.
C7_Original ==
    (op = "test_full_arithmetic" /\ ~ret["FullArithmetic"].aborted) =>
        /\ ret["FullArithmetic"].c88
        /\ ret["FullArithmetic"].c90
        /\ ret["FullArithmetic"].c94
        /\ ret["FullArithmetic"].c95
        /\ ret["FullArithmetic"].c97

\* C7 amended: for every v >= 1, index *= 4 equals 2*(index + (v-2)) + 4 and
\* 4v modulo 2^Width, and after index -= 1, index % 4 is 3; index / 4 and
\* index /= 4 give v - 1 exactly when v <= 2^(Width-2), i.e. when 4v - 1
\* does not exceed the maximum of the underlying type.
C7_Chain ==
    (op = "test_full_arithmetic" /\ ~ret["FullArithmetic"].aborted) =>
        LET r == ret["FullArithmetic"]
        IN  /\ arg >= 1
            /\ r.c88 /\ r.c90 /\ r.c94
            /\ Cast("FullArithmetic", r.times4) = Wrap(4 * arg)
            /\ Cast("FullArithmetic", r.three) = 3
            /\ (arg <= 2 ^ (Width - 2)) =>
                  /\ r.c95 /\ r.c97
                  /\ Cast("FullArithmetic", r.quotient) = arg - 1
                  /\ Cast("FullArithmetic", r.index) = arg - 1
            /\ (arg > 2 ^ (Width - 2)) => (~r.c95 /\ ~r.c97)

\* C7 witness: the chain ran from v = 2^(Width-2), where 4v wraps to 0, and
\* index /= 4 still left v - 1.
C7_Witness ==
    /\ op = "test_full_arithmetic"
    /\ ~ret["FullArithmetic"].aborted
    /\ arg = 2 ^ (Width - 2)
    /\ Cast("FullArithmetic", ret["FullArithmetic"].times4) = 0
    /\ ret["FullArithmetic"].c97

\* The four operations that reach the underlying / and %.
DivOps == {"divassign", "div", "modassign", "mod"}

\* C8: Divide/DivideAssign and Modulo/ModuloAssign pass through to the
\* underlying operators: for d # 0 the result holds the truncating quotient
\* a / d, respectively the remainder a % d, with (a / d) * d + (a % d) = a
\* and a % d < d; for d = 0 the wrapper neither checks nor substitutes a
\* value: the underlying division by zero is executed and the outcome is one
\* of the underlying type's own outcomes.
C8_DivMod ==
    (op \in DivOps) =>
        LET t == "FullArithmetic"
            a == Cast(t, old[t])
            res == Cast(t, ret[t])
        IN  /\ arg # 0 =>
                  /\ status = "running"
                  /\ op \in {"divassign", "div"} =>
                        /\ res = a \div arg
                        /\ \A m \in FullArithmetic_mod(old[t], arg) :
                              /\ res * arg + Cast(t, m.ret) = a
                              /\ Cast(t, m.ret) < arg
                  /\ op \in {"modassign", "mod"} =>
                        /\ res = a % arg
                        /\ res < arg
                        /\ \A q \in FullArithmetic_div(old[t], arg) :
                              Cast(t, q.ret) * arg + res = a
                  /\ op \in {"divassign", "modassign"} =>
                        Cast(t, index[t]) = res
                  /\ op \in {"div", "mod"} => index[t] = old[t]
            /\ arg = 0 =>
                  /\ status # "running"
                  /\ op \in {"divassign", "div"} =>
                        \E o \in Underlying_div(a, arg) :
                            After(o.ub, o.trap) = status /\ o.val = res
                  /\ op \in {"modassign", "mod"} =>
                        \E o \in Underlying_mod(a, arg) :
                            After(o.ub, o.trap) = status /\ o.val = res

\* C8 witness: index /= 0 trapped, as the underlying division does.
C8_Witness ==
    /\ op = "divassign"
    /\ arg = 0
    /\ status = "trapped"

\* C9: Multiply(w, s), Multiply(s, w) and the object left by
\* w.MultiplyAssign(s) all hold (v * s) mod 2^Width, and the non-mutating
\* forms leave w at v.
C9_Multiply ==
    \A t \in tiers :
        /\ op = "mul" =>
              /\ Cast(t, ret[t]) = Wrap(Cast(t, old[t]) * arg)
              /\ index[t] = old[t]
              /\ ret[t] = FullArithmetic_mul_left(arg, old[t])
              /\ ret[t] = FullArithmetic_mulassign(old[t], arg).self
        /\ op = "mul_left" =>
              /\ Cast(t, ret[t]) = Wrap(Cast(t, old[t]) * arg)
              /\ index[t] = old[t]
              /\ ret[t] = FullArithmetic_mul(old[t], arg)
              /\ ret[t] = FullArithmetic_mulassign(old[t], arg).self
        /\ op = "mulassign" =>
              /\ Cast(t, index[t]) = Wrap(Cast(t, old[t]) * arg)
              /\ index[t] = FullArithmetic_mul(old[t], arg)
              /\ index[t] = FullArithmetic_mul_left(arg, old[t])

\* C9 witness: scale * index with a product that wraps.
C9_Witness ==
    /\ op = "mul_left"
    /\ tiers = FullTiers
    /\ Cast("FullArithmetic", old["FullArithmetic"]) * arg >= Modulus
    /\ Cast("FullArithmetic", ret["FullArithmetic"])
          = (Cast("FullArithmetic", old["FullArithmetic"]) * arg) % Modulus
    /\ index["FullArithmetic"] = old["FullArithmetic"]

\* C10: the index types a test is instantiated for, driven through the same
\* operations from the same starting value (Basic operations for all three
\* tiers, Basic and Incrementable operations for Incrementable and
\* FullArithmetic), hold the same value after every step and returned the
\* same result from every step.
C10_TiersAgree ==
    \A s \in tiers, t \in tiers :
        /\ Cast(s, index[s]) = Cast(t, index[t])
        /\ ret[s] = ret[t]

\* C10 witness: Incrementable and FullArithmetic, side by side, have both
\* post-decremented from 0 to the maximum.
C10_Witness ==
    /\ tiers = IncTiers
    /\ op = "postdec"
    /\ Cast("Incrementable", index["Incrementable"]) = Modulus - 1
    /\ Cast("FullArithmetic", index["FullArithmetic"]) = Modulus - 1
    /\ Cast("Incrementable", ret["Incrementable"]) = 0

\* The text is a decimal integer: an optional sign, then digits and nothing
\* else.
IsIntegerText(text) ==
    LET unsigned == IF text # <<>> /\ text[1] \in {"+", "-"}
                    THEN SubSeq(text, 2, Len(text))
                    ELSE text
    IN  /\ unsigned # <<>>
        /\ \A k \in 1 .. Len(unsigned) : IsDigit(unsigned[k])

\* The integer the text denotes.
IntegerValue(text) ==
    IF text[1] = "-" THEN 0 - Magnitude(SubSeq(text, 2, Len(text)))
    ELSE IF text[1] = "+" THEN Magnitude(SubSeq(text, 2, Len(text)))
    ELSE Magnitude(text)

\* The text is an integer in [0, dbSize).
IsIndexText(text) ==
    /\ IsIntegerText(text)
    /\ IntegerValue(text) >= 0
    /\ IntegerValue(text) < dbSize

\* C11: the example program needs exactly two arguments, and any argument
\* that is not the text of an integer in [0, 100) (non-numeric, non-integer,
\* negative, at or above 100, beyond the range of the type) makes it print a
\* diagnostic and exit non-zero before any table lookup; only when both
\* arguments are integers in [0, 100) does it look up, print the two values
\* and exit 0.
C11_CliContract ==
    LET bothValid == /\ prog.argc = 3
                     /\ Len(prog.argv) = 2
                     /\ IsIndexText(prog.argv[1])
                     /\ IsIndexText(prog.argv[2])
    IN  /\ prog.pc \in {"compare", "exited"} /\ prog.lookups # <<>>
              => bothValid
        /\ prog.pc = "exited" =>
              /\ (prog.exit = EXIT_SUCCESS) <=> bothValid
              /\ prog.exit # EXIT_SUCCESS =>
                    /\ prog.err # <<>>
                    /\ prog.lookups = <<>>
                    /\ prog.out = <<>>
              /\ prog.exit = EXIT_SUCCESS =>
                    /\ prog.err = <<>>
                    /\ Len(prog.out) = 2

=============================================================================
